---- MODULE Spec2Model ----
(***************************************************************************)
(* Room state machine of the card game server in src/app.py: GameState     *)
(* (deck, hands, field, turn pointer, pass counter, scores, parent) and    *)
(* the socket handlers that drive it.                                      *)
(*                                                                         *)
(* A card is a record [suit, rank].  Suits are written as the position of  *)
(* the suit string in Python's string order, which is the order sort_hand  *)
(* compares them in: "JK" = 0, spade = 1, club = 2, heart = 3,             *)
(* diamond = 4.  Python lists are 1-based sequences here; Python indices   *)
(* (0-based, negative allowed) are converted where the code indexes.       *)
(***************************************************************************)
EXTENDS Integers, Sequences, FiniteSets, TLC

\* ------------------------------------------------------------- bounds
\* Number of deck orders random.shuffle may produce in the model.
NumShuffles == 2
\* Hand positions a client may submit are drawn from -1 .. MaxIndex.
MaxIndex == 5
\* Accepted plays and passes explored per room.
MaxActs == 2
\* Increments of pass_count explored while no round has been set up.
MaxLobbyPass == 2
\* Longest selection and longest field the is_valid_play harness judges.
MaxCand == 3

\* ---------------------------------------------------------- constants
max_players == 4
HandSize == 5
TenhouLoss == 10
JokerRank == 99
TwoRank == 15
EightRank == 8
AceRank == 14
LowestRank == 3

\* SUITS in the order the code lists them: spade, heart, diamond, club.
SUITS == <<1, 3, 4, 2>>
RANKS == [i \in 1..13 |-> i + 2]
SORT_MAP == [r \in (3..15) \cup {99} |-> IF r = 99 THEN 13 ELSE r - 3]

Card(s, r) == [suit |-> s, rank |-> r]
Joker == Card(0, JokerRank)

\* dict.get(rank, default) on SORT_MAP
SortKey(r, default) == IF r \in DOMAIN SORT_MAP THEN SORT_MAP[r] ELSE default

\* ------------------------------------------------------ list helpers
Range(s) == {s[i] : i \in DOMAIN s}

RECURSIVE SumSeq(_)
SumSeq(s) == IF s = <<>> THEN 0 ELSE Head(s) + SumSeq(Tail(s))

Max2(a, b) == IF a >= b THEN a ELSE b

\* Number of occurrences of x in s (multiset view of a list).
Count(s, x) == Cardinality({i \in DOMAIN s : s[i] = x})

SameCards(s, t) == /\ Len(s) = Len(t)
                   /\ \A x \in Range(s) \cup Range(t) : Count(s, x) = Count(t, x)

\* list.pop(i) result on the list, i a valid 0-based position
RemoveAt(s, i) == [k \in 1..(Len(s) - 1) |-> IF k <= i THEN s[k] ELSE s[k + 1]]

\* Python index i on a list of length n: position when valid, -1 otherwise
PyIndex(i, n) == IF i >= 0 /\ i < n THEN i
                 ELSE IF i < 0 /\ i + n >= 0 THEN i + n
                 ELSE -1

\* sorted(indices, reverse=True)
RECURSIVE InsertDesc(_, _)
InsertDesc(x, s) == IF s = <<>> THEN <<x>>
                    ELSE IF x >= Head(s) THEN <<x>> \o s
                    ELSE <<Head(s)>> \o InsertDesc(x, Tail(s))

RECURSIVE SortedDesc(_)
SortedDesc(s) == IF s = <<>> THEN <<>> ELSE InsertDesc(Head(s), SortedDesc(Tail(s)))

\* ------------------------------------------------------------ sort_hand
CardLeq(a, b) == \/ SortKey(a.rank, 99) < SortKey(b.rank, 99)
                 \/ /\ SortKey(a.rank, 99) = SortKey(b.rank, 99)
                    /\ a.suit <= b.suit

RECURSIVE InsertCard(_, _)
InsertCard(c, s) == IF s = <<>> THEN <<c>>
                    ELSE IF CardLeq(Head(s), c) THEN <<Head(s)>> \o InsertCard(c, Tail(s))
                    ELSE <<c>> \o s

RECURSIVE sort_hand(_)
sort_hand(hand) == IF hand = <<>> THEN <<>>
                   ELSE InsertCard(hand[Len(hand)], sort_hand(SubSeq(hand, 1, Len(hand) - 1)))

\* ------------------------------------------------------------ the deck
\* The 54 cards in the order init_round builds them.
BaseDeck == [k \in 1..52 |-> Card(SUITS[((k - 1) \div 13) + 1], RANKS[((k - 1) % 13) + 1])]
            \o <<Joker, Joker>>

\* The cards of `deck` that are not in `top` (one copy removed per copy in top).
RECURSIVE Without(_, _)
Without(deck, top) ==
    IF top = <<>> THEN deck
    ELSE LET i == CHOOSE k \in DOMAIN deck : deck[k] = Head(top)
         IN  Without(RemoveAt(deck, i - 1), Tail(top))

Reverse(s) == [k \in 1..Len(s) |-> s[Len(s) + 1 - k]]

\* A deck order whose pops (from the end of the list) yield `top` first.
DeckWithTop(top) == Without(BaseDeck, top) \o Reverse(top)

\* Pop orders of the modelled shuffles.
\* TopA, dealt to 2 seats: seat 0 holds 3-4-5-6-7, seat 1 holds 4, 8, 2, Joker, 9;
\* dealt to 3 seats: seat 0 holds 3, 6, 8, 8, 9, seat 1 holds 4-5-6-7-Joker,
\* seat 2 holds 3, 4, 7, 2, Joker.
TopA == << Card(1, 3), Card(3, 4), Card(1, 4), Card(3, 8), Card(1, 5),
           Card(3, 15), Card(1, 6), Joker, Card(1, 7), Card(3, 9),
           Card(4, 6), Card(2, 3), Card(4, 8), Card(4, 7), Joker >>
\* TopB, dealt to 2 seats: seat 0 holds 5-5-6-6-9, seat 1 holds 6-6-7-7-Joker.
TopB == << Card(1, 5), Card(4, 6), Card(3, 5), Card(2, 6), Card(1, 6),
           Card(4, 7), Card(3, 6), Card(2, 7), Card(1, 9), Joker,
           Card(4, 14), Card(2, 15), Card(1, 8), Card(3, 8) >>

RECURSIVE Rotate(_, _)
Rotate(s, k) == IF k = 0 \/ s = <<>> THEN s ELSE Rotate(Tail(s) \o <<Head(s)>>, k - 1)

Shuffle(k) == IF k = 1 THEN DeckWithTop(TopA)
              ELSE IF k = 2 THEN DeckWithTop(TopB)
              ELSE Rotate(BaseDeck, 7 * k)

Shuffles == {Shuffle(k) : k \in 1..NumShuffles}

\* Pop orders of the shuffles modelled for practice rooms (4 seats, one line
\* per round of the deal).
\* TopC: the human holds 5, 5, 10, J, K; CPU 1 holds 3, 7, 9, Joker, Joker;
\* CPU 2 holds 3, 4, 8, 9, Q; CPU 3 holds 3, 4, 6, 10, A.
TopC == << Card(1, 5), Card(1, 3), Card(3, 3), Card(4, 3),
           Card(3, 5), Card(1, 7), Card(3, 4), Card(4, 4),
           Card(1, 10), Card(1, 9), Card(3, 8), Card(4, 6),
           Card(1, 11), Joker, Card(3, 9), Card(4, 10),
           Card(1, 13), Joker, Card(3, 12), Card(4, 14) >>
\* TopD: the human holds 3-4-5-6-7; CPU 1 holds 5, 8, J, Q, K; CPU 2 holds
\* 4, 8, 9, J, Q; CPU 3 holds 3, 9, 10, J, A.
TopD == << Card(1, 3), Card(3, 5), Card(4, 4), Card(2, 3),
           Card(3, 4), Card(3, 8), Card(4, 8), Card(2, 9),
           Card(1, 5), Card(3, 11), Card(4, 9), Card(2, 10),
           Card(3, 6), Card(3, 12), Card(4, 11), Card(2, 11),
           Card(1, 7), Card(3, 13), Card(4, 12), Card(2, 14) >>

PracticeShuffles == {DeckWithTop(TopC), DeckWithTop(TopD)}

\* ------------------------------------------- analyze_hand_composition
None == [type |-> "None", rank |-> 0, len |-> 0]
Comp(t, r, n) == [type |-> t, rank |-> r, len |-> n]

NonJokers(cards) == SelectSeq(cards, LAMBDA c : c.rank # JokerRank)

\* rank of the first / last card after sorting by SORT_MAP.get(rank, 0)
MinRank(cards) == CHOOSE r \in {c.rank : c \in Range(cards)} :
                     \A c \in Range(cards) : SortKey(r, 0) <= SortKey(c.rank, 0)
MaxRank(cards) == CHOOSE r \in {c.rank : c \in Range(cards)} :
                     \A c \in Range(cards) : SortKey(r, 0) >= SortKey(c.rank, 0)

RankCount(cards, r) == Cardinality({i \in DOMAIN cards : cards[i].rank = r})

RECURSIVE NeededJokersForFill(_, _, _)
NeededJokersForFill(cards, lo, hi) ==
    IF lo > hi THEN 0
    ELSE (2 - RankCount(cards, lo)) + NeededJokersForFill(cards, lo + 1, hi)

StairsComp(non_jokers, joker_count, total_len) ==
    LET min_r == MinRank(non_jokers)
        max_r == MaxRank(non_jokers)
        distinct == \A i, j \in DOMAIN non_jokers :
                       i # j => non_jokers[i].rank # non_jokers[j].rank
        needed_span == max_r - min_r + 1
        missing_cards == needed_span - Len(non_jokers)
        unused == joker_count - missing_cards
    IN  IF total_len >= 3 /\ distinct /\ joker_count >= missing_cards
        THEN Comp("stairs", Max2(LowestRank, min_r - unused), total_len)
        ELSE None

PairedStairsComp(non_jokers, joker_count, total_len) ==
    LET min_r == MinRank(non_jokers)
        max_r == MaxRank(non_jokers)
        needed == NeededJokersForFill(non_jokers, min_r, max_r)
        current_span_cards == (max_r - min_r + 1) * 2
        remaining_cards_needed == total_len - current_span_cards
        remaining_jokers == joker_count - needed
        pairs_below == remaining_cards_needed \div 2
    IN  IF /\ total_len >= 4
           /\ total_len % 2 = 0
           /\ \A c \in Range(non_jokers) : RankCount(non_jokers, c.rank) <= 2
           /\ joker_count >= needed
           /\ remaining_cards_needed >= 0
           /\ remaining_jokers = remaining_cards_needed
        THEN Comp("paired_stairs", Max2(LowestRank, min_r - pairs_below), total_len)
        ELSE None

analyze_hand_composition(cards) ==
    IF cards = <<>> THEN None
    ELSE LET non_jokers == NonJokers(cards)
             joker_count == Len(cards) - Len(non_jokers)
             total_len == Len(cards)
         IN  IF (\E c \in Range(non_jokers) : c.rank = TwoRank) /\ total_len > 1
             THEN None
             ELSE IF non_jokers = <<>>
             THEN Comp("pair", JokerRank, total_len)
             ELSE IF \A c \in Range(non_jokers) : c.rank = MinRank(non_jokers)
             THEN Comp(IF total_len > 1 THEN "pair" ELSE "single",
                       MinRank(non_jokers), total_len)
             ELSE IF StairsComp(non_jokers, joker_count, total_len) # None
             THEN StairsComp(non_jokers, joker_count, total_len)
             ELSE PairedStairsComp(non_jokers, joker_count, total_len)

\* -------------------------------------------------------- is_valid_play
\* Mutant of TwoRule: a single 2 is accepted on a field of any length.
TwoRuleAnyField(cards, fld) == Len(cards) = 1

\* The rank-15 branch of is_valid_play (cards hold a rank-15 card).
TwoRule(cards, fld) ==
    IF Len(cards) # 1 THEN FALSE
    ELSE IF fld = <<>> THEN TRUE
    ELSE Len(fld) = 1

\* Lowest non-Joker rank on the field, 99 for an all-Joker field.
FieldRank(fld) == IF NonJokers(fld) = <<>> THEN JokerRank ELSE MinRank(NonJokers(fld))

TypeCompatible(target_type, c_type) ==
    \/ target_type \in {"single", "pair"} /\ c_type \in {"single", "pair"}
    \/ target_type = c_type

\* Mutant of AceBlocksJokers: Jokers may top an Ace.
AceBlocksNothing(comp, fld) == FALSE

\* An all-Joker candidate on a field whose lowest non-Joker card is an Ace.
AceBlocksJokers(comp, fld) ==
    /\ comp.rank = JokerRank
    /\ fld # <<>>
    /\ NonJokers(fld) # <<>>
    /\ MinRank(NonJokers(fld)) = AceRank

ValidPlay(cards, fld, fld_type) ==
    IF cards = <<>> THEN FALSE
    ELSE IF \E c \in Range(cards) : c.rank = TwoRank THEN TwoRule(cards, fld)
    ELSE IF Len(cards) = 1 /\ cards[1].rank = JokerRank THEN FALSE
    ELSE LET comp == analyze_hand_composition(cards)
         IN  IF comp = None THEN FALSE
             ELSE IF AceBlocksJokers(comp, fld) THEN FALSE
             ELSE IF fld = <<>> THEN TRUE
             ELSE IF comp.len # Len(fld) THEN FALSE
             ELSE IF ~TypeCompatible(fld_type, comp.type) THEN FALSE
             ELSE IF comp.rank = JokerRank THEN TRUE
             ELSE comp.rank = FieldRank(fld) + 1

\* ---------------------------------------------------------------- state
VARIABLES
    players,        \* roster: sequence of [sid, hand, score], seat i at position i + 1
    deck,           \* the deck, popped from its end
    field,          \* cards on the table
    field_type,     \* composition type of the field, "None" when unset
    field_owner,    \* seat index of the field's owner, NoSeat when None
    turn_idx,       \* seat index whose turn it is
    parent_idx,     \* seat index of the parent (dealer)
    pass_count,     \* consecutive passes
    game_started,
    game_over,
    num_players,    \* seat count fixed by init_round, Unset before the first one
    is_first_turn,  \* meaningful once init_round has run
    last,           \* the last handler run: [op, ret, seat, cards]
    nacts,          \* plays and passes that changed the room so far (exploration budget)
    round_acted,    \* some play or pass was accepted since the last init_round
    cand,           \* is_valid_play harness: the selection judged
    verdict,        \* is_valid_play harness: the answer
    tasks           \* scheduled run_cpu_turn tasks not yet run: number per CPU sid

gameVars == <<players, deck, field, field_type, field_owner, turn_idx, parent_idx,
              pass_count, game_started, game_over, num_players, is_first_turn>>
vars == <<players, deck, field, field_type, field_owner, turn_idx, parent_idx,
          pass_count, game_started, game_over, num_players, is_first_turn,
          last, nacts, round_acted, cand, verdict, tasks>>

NoSeat == -1
Unset == -1

Seat(i) == players[i + 1]
Seats == 0..(Len(players) - 1)

\* Connection ids a request may carry: every seat's and one that never joined.
Sids == 1..(max_players + 1)

\* Index sequences a play request may carry: every strictly increasing choice of
\* positions 0 .. MaxIndex - 1, a repeated position, the last card by -1, the
\* position MaxIndex (past the end of a dealt hand), and nothing.
RECURSIVE AscSeq(_)
AscSeq(S) == IF S = {} THEN <<>>
             ELSE LET m == CHOOSE x \in S : \A y \in S : x <= y
                  IN  <<m>> \o AscSeq(S \ {m})

IndexInputs ==
    {AscSeq(S) : S \in SUBSET (0..(MaxIndex - 1))}
        \cup {<<i, i>> : i \in 0..(MaxIndex - 1)}
        \cup {<<-1>>, <<MaxIndex>>}

\* What a handler leaves in `last`: ret is "ok" (True returned), "fail" (False
\* returned), "invalid" (Invalid Move), "noseat" (sender holds no seat) or
\* "raised" (an exception left the handler).
Done(op, ret) == [op |-> op, ret |-> ret, seat |-> NoSeat, cards |-> <<>>]
Acted(op, p_idx, cards) == [op |-> op, ret |-> "ok", seat |-> p_idx, cards |-> cards]
\* An exception raised after the turn check let seat p_idx through.
Raised(op, p_idx) == [op |-> op, ret |-> "raised", seat |-> p_idx, cards |-> <<>>]

\* Connection ids of the automated seats of a practice room
\* ("cpu_<room>_1" .. "cpu_<room>_3").
CpuSids == {max_players + 1 + k : k \in 1..(max_players - 1)}

NoTasks == [sid \in CpuSids |-> 0]

\* socketio.start_background_task(self.run_cpu_turn, sid)
Schedule(tk, sid) == [tk EXCEPT ![sid] = @ + 1]

\* The end of init_round: the dealer's turn is scheduled when it is a CPU; with
\* no seat at parent_idx the lookup raises before that.
AfterDeal(tk) ==
    IF parent_idx < Len(players) /\ players[parent_idx + 1].is_cpu
    THEN Schedule(tk, players[parent_idx + 1].sid)
    ELSE tk

\* The end of apply_play and apply_pass, reached when they return True: unless
\* the round is over, the turn of the seat now to move is scheduled when it is
\* a CPU.
AfterAct(tk) ==
    IF /\ last'.ret = "ok"
       /\ ~game_over'
       /\ turn_idx' < Len(players')
       /\ players'[turn_idx' + 1].is_cpu
    THEN Schedule(tk, players'[turn_idx' + 1].sid)
    ELSE tk

GameInit ==
    /\ players = <<>>
    /\ deck = <<>>
    /\ field = <<>>
    /\ field_type = "None"
    /\ field_owner = NoSeat
    /\ turn_idx = 0
    /\ parent_idx = 0
    /\ pass_count = 0
    /\ game_started = FALSE
    /\ game_over = FALSE
    /\ num_players = Unset
    /\ is_first_turn = FALSE

Init ==
    /\ GameInit
    /\ last = Done("init", "ok")
    /\ nacts = 0
    /\ round_acted = FALSE
    /\ cand = <<>>
    /\ verdict = FALSE
    /\ tasks = NoTasks

\* ------------------------------------------------------------ add_player
add_player(ps, sid, is_cpu) ==
    Append(ps, [sid |-> sid, hand |-> <<>>, score |-> 0, is_cpu |-> is_cpu])

\* The connection id of a connection that holds no seat: the least unused one
\* (Len(players) + 1 as long as no seat was removed).
FreshSid ==
    CHOOSE sid \in 1..max_players :
        /\ \A k \in DOMAIN players : players[k].sid # sid
        /\ \A t \in 1..(sid - 1) : \E k \in DOMAIN players : players[k].sid = t

\* on_join: a new connection joins a room whose game has not started.
Join ==
    /\ ~game_started
    /\ Len(players) < max_players
    /\ players' = add_player(players, FreshSid, FALSE)
    /\ last' = Done("join", "ok")
    /\ UNCHANGED <<deck, field, field_type, field_owner, turn_idx, parent_idx,
                   pass_count, game_started, game_over, num_players, is_first_turn,
                   nacts, round_acted, cand, verdict, tasks>>

\* ------------------------------------------------------------ init_round
\* The hand seat i is dealt from shuffled deck dk among n seats: pops
\* i, n + i, 2n + i, ... (pop j takes dk[Len(dk) - j]), then sort_hand.
DealtHand(dk, n, i) ==
    sort_hand([r \in 1..HandSize |-> dk[Len(dk) - ((r - 1) * n + i)]])

\* Mutant of DealtDeck: the deal leaves the dealt cards in the deck.
DealtDeckKeeps(dk, n) == dk

\* The deck once every seat was dealt its hand.
DealtDeck(dk, n) == SubSeq(dk, 1, Len(dk) - HandSize * n)

\* The roster once deck dk was dealt to roster ps.
Deal(ps, keep_scores, dk) ==
    [k \in 1..Len(ps) |->
        [sid |-> ps[k].sid,
         is_cpu |-> ps[k].is_cpu,
         hand |-> DealtHand(dk, Len(ps), k - 1),
         score |-> IF keep_scores THEN ps[k].score ELSE 0]]

init_round(keep_scores, dk) ==
    LET n == Len(players)
    IN  /\ players' = Deal(players, keep_scores, dk)
        /\ num_players' = n
        /\ deck' = DealtDeck(dk, n)
        /\ field' = <<>>
        /\ field_type' = "None"
        /\ field_owner' = NoSeat
        /\ turn_idx' = parent_idx
        /\ pass_count' = 0
        /\ is_first_turn' = TRUE
        /\ game_over' = FALSE
        /\ round_acted' = FALSE
        /\ UNCHANGED parent_idx

\* The shuffles random.shuffle is taken to produce: those of practice rooms
\* where a CPU holds a seat.
Decks ==
    IF \E k \in DOMAIN players : players[k].is_cpu THEN PracticeShuffles ELSE Shuffles

\* on_start -> start_game
StartGame ==
    /\ Len(players) >= 2
    /\ game_started' = TRUE
    /\ \E dk \in Decks : init_round(FALSE, dk)
    /\ tasks' = AfterDeal(tasks)
    /\ last' = Done("start", "ok")
    /\ UNCHANGED <<nacts, cand, verdict>>

\* Mutant of NextGame: the next round starts from zeroed scores.
NextGameResetsScores ==
    /\ \E dk \in Decks : init_round(FALSE, dk)
    /\ tasks' = AfterDeal(tasks)
    /\ last' = Done("next", IF parent_idx < Len(players) THEN "ok" ELSE "raised")
    /\ UNCHANGED <<game_started, nacts, cand, verdict>>

\* on_next -> next_game; with an empty roster init_round raises at its last
\* statements (players[parent_idx]) after every assignment above was made.
NextGame ==
    /\ \E dk \in Decks : init_round(TRUE, dk)
    /\ tasks' = AfterDeal(tasks)
    /\ last' = Done("next", IF parent_idx < Len(players) THEN "ok" ELSE "raised")
    /\ UNCHANGED <<game_started, nacts, cand, verdict>>

\* -------------------------------------------------------------- draw_all
\* Seats parent, parent + 1, ... each pop one card while the deck has one.
RECURSIVE DrawFrom(_, _, _, _)
DrawFrom(ps, dk, i, n) ==
    IF i >= n \/ dk = <<>> THEN [players |-> ps, deck |-> dk]
    ELSE LET idx == (parent_idx + i) % n
             card == dk[Len(dk)]
         IN  DrawFrom([ps EXCEPT ![idx + 1].hand = sort_hand(Append(@, card))],
                      SubSeq(dk, 1, Len(dk) - 1), i + 1, n)

draw_all(ps, dk) == DrawFrom(ps, dk, 0, num_players)

\* ------------------------------------------------------ calculate_scores
RawLoss(hand) == SumSeq([k \in DOMAIN hand |-> IF hand[k].rank = JokerRank THEN 2 ELSE 1])

\* Mutant of ParentLoss: the parent's loss is rounded down.
ParentLossFloor(base) == (3 * base) \div 2

\* math.ceil(base * 1.5)
ParentLoss(base) == (3 * base + 1) \div 2

Loss(ps, i, is_tenhou) ==
    IF is_tenhou THEN TenhouLoss
    ELSE IF i = parent_idx THEN ParentLoss(RawLoss(ps[i + 1].hand))
    ELSE RawLoss(ps[i + 1].hand)

\* Mutant of TotalLost: the winner is credited the raw card counts, without the
\* parent's 1.5 factor or the flat Tenhou amount.
TotalLostRaw(ps, winner_idx, is_tenhou) ==
    SumSeq([k \in DOMAIN ps |-> IF k - 1 = winner_idx THEN 0 ELSE RawLoss(ps[k].hand)])

TotalLost(ps, winner_idx, is_tenhou) ==
    SumSeq([k \in DOMAIN ps |-> IF k - 1 = winner_idx THEN 0 ELSE Loss(ps, k - 1, is_tenhou)])

calculate_scores(ps, winner_idx, is_tenhou) ==
    [k \in DOMAIN ps |->
       [ps[k] EXCEPT !.score = IF k - 1 = winner_idx
                               THEN @ + TotalLost(ps, winner_idx, is_tenhou)
                               ELSE @ - Loss(ps, k - 1, is_tenhou)]]

\* ------------------------------------------------------------ apply_play
is_valid_play(cards) == ValidPlay(cards, field, field_type)

\* Every index of the sequence addresses a card of a hand of n cards.
InRange(indices, n) == \A k \in DOMAIN indices : PyIndex(indices[k], n) >= 0

\* [p["hand"][i] for i in indices]
Selected(hand, indices) ==
    [k \in DOMAIN indices |-> hand[PyIndex(indices[k], Len(hand)) + 1]]

\* for i in sorted(indices, reverse=True): hand.pop(i)
\* ok is FALSE when a pop raised IndexError; hand is the list as left behind.
RECURSIVE PopEach(_, _)
PopEach(hand, idxs) ==
    IF idxs = <<>> THEN [hand |-> hand, ok |-> TRUE]
    ELSE IF PyIndex(Head(idxs), Len(hand)) < 0 THEN [hand |-> hand, ok |-> FALSE]
    ELSE PopEach(RemoveAt(hand, PyIndex(Head(idxs), Len(hand))), Tail(idxs))

PopAll(hand, indices) == PopEach(hand, SortedDesc(indices))

\* Seat index found by the loop over players (the last match), -1 when none.
SeatOf(sid) ==
    IF \E i \in Seats : Seat(i).sid = sid
    THEN CHOOSE i \in Seats : Seat(i).sid = sid /\ \A j \in Seats : Seat(j).sid = sid => j <= i
    ELSE -1

\* next(p for p in players if p['sid'] == sid): the first match.
FirstSeatOf(sid) ==
    CHOOSE i \in Seats : Seat(i).sid = sid /\ \A j \in Seats : Seat(j).sid = sid => i <= j

\* has_eight or has_two
IsClearing(selected) ==
    \E c \in Range(selected) : c.rank = EightRank \/ c.rank = TwoRank

\* Mutant of IsTenhou: any five-card play counts.
IsTenhouFiveCards(p_idx, selected) == Len(selected) = HandSize

IsTenhou(p_idx, selected) ==
    is_first_turn /\ p_idx = parent_idx /\ Len(selected) = HandSize

\* Mutant of PlayTurn: the turn advances after a clearing play too.
PlayTurnAlways(clearing) == (turn_idx + 1) % num_players

\* The turn index an accepted play leaves.
PlayTurn(clearing) ==
    IF clearing THEN turn_idx ELSE (turn_idx + 1) % num_players

\* The field type an accepted, non-clearing play leaves.
PlayFieldType(comp) ==
    IF comp # None /\ field = <<>> THEN comp.type ELSE field_type

\* Mutant of PlayPassCount: a play leaves the pass counter as it was.
PlayPassCountKept == pass_count

\* The pass counter an accepted play leaves.
PlayPassCount == 0

\* Mutant of OutOfTurn: the turn check is missing.
OutOfTurnNever(p_idx) == FALSE

\* The turn check both apply_play and apply_pass start with.
OutOfTurn(p_idx) == p_idx # turn_idx

Spend == nacts' = IF nacts < MaxActs THEN nacts + 1 ELSE nacts

apply_play(sid, indices) ==
    LET p_idx == SeatOf(sid)
    IN  IF OutOfTurn(p_idx)
        THEN /\ last' = Done("play", "fail")
             /\ UNCHANGED <<gameVars, nacts, round_acted>>
        ELSE
        LET hand == Seat(p_idx).hand
            selected == Selected(hand, indices)
            is_tenhou == IsTenhou(p_idx, selected)
            popped == PopAll(hand, indices)
        IN  IF ~popped.ok
            THEN /\ players' = [players EXCEPT ![p_idx + 1].hand = popped.hand]
                 /\ last' = Raised("play", p_idx)
                 /\ Spend
                 /\ UNCHANGED <<deck, field, field_type, field_owner, turn_idx,
                                parent_idx, pass_count, game_started, game_over,
                                num_players, is_first_turn, round_acted>>
            ELSE
            LET comp == analyze_hand_composition(selected)
                ps1 == [players EXCEPT ![p_idx + 1].hand = popped.hand]
                clearing == IsClearing(selected)
                drawn == IF clearing THEN draw_all(ps1, deck)
                         ELSE [players |-> ps1, deck |-> deck]
                won == drawn.players[p_idx + 1].hand = <<>>
            IN  /\ field' = IF clearing THEN <<>> ELSE selected
                /\ field_type' = IF clearing THEN "None" ELSE PlayFieldType(comp)
                /\ field_owner' = IF clearing THEN NoSeat ELSE p_idx
                /\ pass_count' = PlayPassCount
                /\ is_first_turn' = FALSE
                /\ deck' = drawn.deck
                /\ turn_idx' = PlayTurn(clearing)
                /\ players' = IF won THEN calculate_scores(drawn.players, p_idx, is_tenhou)
                              ELSE drawn.players
                /\ parent_idx' = IF won THEN p_idx ELSE parent_idx
                /\ game_over' = IF won THEN TRUE ELSE game_over
                /\ last' = Acted("play", p_idx, selected)
                /\ round_acted' = TRUE
                /\ Spend
                /\ UNCHANGED <<game_started, num_players>>

\* on_play for a sender that holds a seat: build the selection from the
\* sender's hand, validate it, then apply_play.
PlayCard(sid, indices) ==
    LET hand == Seat(FirstSeatOf(sid)).hand
    IN  IF ~InRange(indices, Len(hand))
        THEN /\ last' = Done("play", "raised")
             /\ UNCHANGED <<gameVars, nacts, round_acted>>
        ELSE IF ~is_valid_play(Selected(hand, indices))
        THEN /\ last' = Done("play", "invalid")
             /\ UNCHANGED <<gameVars, nacts, round_acted>>
        ELSE apply_play(sid, indices)

\* on_play; a sender holding no seat is dropped before its indices are used.
OnPlay(sid) ==
    /\ UNCHANGED <<cand, verdict>>
    /\ IF SeatOf(sid) = -1
       THEN /\ last' = Done("play", "noseat")
            /\ UNCHANGED <<gameVars, nacts, round_acted>>
       ELSE \E indices \in IndexInputs : PlayCard(sid, indices)
    /\ tasks' = AfterAct(tasks)

\* ------------------------------------------------------------ apply_pass
\* Mutant of AllPassed: the field clears one pass late.
AllPassedStrict(count) == count > num_players - 1

\* pass_count >= num_players - 1, tested after the increment
AllPassed(count) == count >= num_players - 1

\* The turn index an accepted pass leaves.
PassTurn == (turn_idx + 1) % num_players

apply_pass(sid) ==
    LET p_idx == SeatOf(sid)
    IN  IF OutOfTurn(p_idx)
        THEN /\ last' = Done("pass", "fail")
             /\ UNCHANGED <<gameVars, nacts, round_acted>>
        ELSE IF num_players <= 0
        \* no num_players attribute yet, or 0: the turn advance raises
        \* after pass_count was incremented
        THEN /\ pass_count < MaxLobbyPass
             /\ pass_count' = pass_count + 1
             /\ last' = Raised("pass", p_idx)
             /\ UNCHANGED <<players, deck, field, field_type, field_owner, turn_idx,
                            parent_idx, game_started, game_over, num_players,
                            is_first_turn, nacts, round_acted>>
        ELSE
        LET clear == AllPassed(pass_count + 1)
            drawn == IF clear THEN draw_all(players, deck)
                     ELSE [players |-> players, deck |-> deck]
        IN  /\ turn_idx' = PassTurn
            /\ is_first_turn' = FALSE
            /\ pass_count' = IF clear THEN 0 ELSE pass_count + 1
            /\ players' = drawn.players
            /\ deck' = drawn.deck
            /\ field' = IF clear THEN <<>> ELSE field
            /\ field_type' = IF clear THEN "None" ELSE field_type
            /\ field_owner' = IF clear THEN NoSeat ELSE field_owner
            /\ last' = Acted("pass", p_idx, <<>>)
            /\ round_acted' = TRUE
            /\ Spend
            /\ UNCHANGED <<parent_idx, game_started, game_over, num_players>>

\* on_pass
OnPass(sid) ==
    /\ apply_pass(sid)
    /\ tasks' = AfterAct(tasks)
    /\ UNCHANGED <<cand, verdict>>

\* --------------------------------------------------------- on_disconnect
\* [p for p in players if p['sid'] != sid]
remove_player(sid) == SelectSeq(players, LAMBDA p : p.sid # sid)

\* on_disconnect: the sender's seat, if it holds one, is removed from the
\* roster and game_started is cleared, whatever the state of the round.
Disconnect ==
    /\ \E sid \in Sids :
          IF SeatOf(sid) # -1
          THEN /\ players' = remove_player(sid)
               /\ game_started' = FALSE
               /\ last' = Done("disconnect", "ok")
               /\ UNCHANGED <<deck, field, field_type, field_owner, turn_idx, parent_idx,
                              pass_count, game_over, num_players, is_first_turn,
                              round_acted>>
          ELSE /\ last' = Done("disconnect", "noseat")
               /\ UNCHANGED <<gameVars, round_acted>>
    /\ UNCHANGED <<cand, verdict, tasks>>

\* A disconnect that removed a seat counts against the budget of MaxActs.
CountedDisconnect ==
    /\ Disconnect
    /\ IF last'.ret = "ok" THEN Spend ELSE UNCHANGED nacts

\* on_join sent again by a connection that already holds a seat: add_player
\* does not look for the sid in the roster.
Rejoin ==
    /\ ~game_started
    /\ Len(players) < max_players
    /\ \E k \in DOMAIN players : players' = add_player(players, players[k].sid, FALSE)
    /\ last' = Done("join", "again")
    /\ UNCHANGED <<deck, field, field_type, field_owner, turn_idx, parent_idx,
                   pass_count, game_started, game_over, num_players, is_first_turn,
                   nacts, round_acted, cand, verdict, tasks>>

\* ----------------------------------------------------------- on_practice
\* The connection that asks for a practice room.
HumanSid == 1

\* The roster on_practice builds: the sender, then CPU 1 .. CPU 3.
RECURSIVE WithCpus(_, _)
WithCpus(ps, k) ==
    IF k = 0 THEN ps
    ELSE add_player(WithCpus(ps, k - 1), max_players + 1 + k, TRUE)

PracticeRoster == WithCpus(add_player(<<>>, HumanSid, FALSE), max_players - 1)

\* on_practice: a fresh room with the sender and three CPU seats, started at
\* once (start_game, init_round); the dealer is seat 0, the human.
Practice ==
    /\ players = <<>>
    /\ num_players = Unset
    /\ \E dk \in PracticeShuffles :
          /\ players' = Deal(PracticeRoster, FALSE, dk)
          /\ deck' = DealtDeck(dk, Len(PracticeRoster))
    /\ num_players' = Len(PracticeRoster)
    /\ game_started' = TRUE
    /\ game_over' = FALSE
    /\ field' = <<>>
    /\ field_type' = "None"
    /\ field_owner' = NoSeat
    /\ turn_idx' = parent_idx
    /\ pass_count' = 0
    /\ is_first_turn' = TRUE
    /\ round_acted' = FALSE
    /\ last' = Done("practice", "ok")
    /\ UNCHANGED <<parent_idx, nacts, cand, verdict, tasks>>

\* ---------------------------------------------------------- run_cpu_turn
RECURSIVE Flatten(_)
Flatten(ss) == IF ss = <<>> THEN <<>> ELSE Head(ss) \o Flatten(Tail(ss))

\* itertools.combinations(s, k), in its order.
RECURSIVE combinations(_, _)
combinations(s, k) ==
    IF k = 0 THEN << <<>> >>
    ELSE IF Len(s) < k THEN <<>>
    ELSE LET with == combinations(Tail(s), k - 1)
         IN  [i \in DOMAIN with |-> <<Head(s)>> \o with[i]] \o combinations(Tail(s), k)

\* The positions 0 .. Len(hand) - 1, ascending.
hand_indices(hand) == [i \in 1..Len(hand) |-> i - 1]

\* rank_groups[r]: the positions of the cards of rank r, ascending.
RankGroup(hand, r) == SelectSeq(hand_indices(hand), LAMBDA i : hand[i + 1].rank = r)

\* The keys of rank_groups in insertion order: the ranks of the hand by first
\* occurrence.
RECURSIVE RanksInOrder(_, _)
RanksInOrder(hand, seen) ==
    IF hand = <<>> THEN <<>>
    ELSE IF Head(hand).rank \in seen THEN RanksInOrder(Tail(hand), seen)
    ELSE <<Head(hand).rank>> \o RanksInOrder(Tail(hand), seen \cup {Head(hand).rank})

\* 1. Single/Pair: for each rank but the Joker's, every combination of its
\* cards; a 2 only as a single.
GroupCandidates(hand) ==
    LET ranks == RanksInOrder(hand, {})
        of(r) == LET indices == RankGroup(hand, r)
                 IN  IF r = JokerRank THEN <<>>
                     ELSE IF r = TwoRank THEN [k \in DOMAIN indices |-> <<indices[k]>>]
                     ELSE Flatten([k \in 1..Len(indices) |-> combinations(indices, k)])
    IN  Flatten([k \in DOMAIN ranks |-> of(ranks[k])])

\* Joker Pair: every candidate so far that is not a 2, extended by the first
\* 1, 2, ... Jokers of the hand.
JokerCandidates(hand, base_cands) ==
    LET jokers == RankGroup(hand, JokerRank)
        of(c) == IF hand[c[1] + 1].rank = TwoRank THEN <<>>
                 ELSE [j \in 1..Len(jokers) |-> c \o SubSeq(jokers, 1, j)]
    IN  Flatten([k \in DOMAIN base_cands |-> of(base_cands[k])])

\* non_joker_indices
NonJokerIndices(hand) ==
    SelectSeq(hand_indices(hand),
              LAMBDA i : hand[i + 1].rank # JokerRank /\ hand[i + 1].rank # TwoRank)

\* search_lengths
SearchLengths(fld) == IF fld # <<>> THEN <<Len(fld)>> ELSE <<3, 4, 5>>

\* The stairs candidate of the given length that starts at rank start_r: the
\* first card of each target rank, the missing ranks filled with Jokers; no
\* candidate when the hand has too few Jokers.
StairsAt(hand, length, start_r) ==
    LET jokers == RankGroup(hand, JokerRank)
        nji == NonJokerIndices(hand)
        found(tr) == SelectSeq(nji, LAMBDA i : hand[i + 1].rank = tr)
        got == Flatten([t \in 1..length |->
                          LET f == found(start_r + t - 1)
                          IN  IF f = <<>> THEN <<>> ELSE <<Head(f)>>])
        needed_jokers == length - Len(got)
    IN  IF needed_jokers <= Len(jokers)
        THEN << got \o SubSeq(jokers, 1, needed_jokers) >>
        ELSE <<>>

\* 2. Stairs
StairsCandidates(hand, fld) ==
    LET nji == NonJokerIndices(hand)
        lens == SearchLengths(fld)
        of(length) ==
            IF length > Len(hand) \/ length < 3 \/ nji = <<>> THEN <<>>
            ELSE LET nj == Selected(hand, nji)
                     min_h == MinRank(nj)
                     max_h == MaxRank(nj)
                 IN  Flatten([d \in 1..(max_h + 2 - min_h) |->
                                StairsAt(hand, length, min_h + d - 1)])
    IN  Flatten([k \in DOMAIN lens |-> of(lens[k])])

\* candidates, in the order run_cpu_turn generates them.
Candidates(hand, fld) ==
    LET groups == GroupCandidates(hand)
    IN  groups \o JokerCandidates(hand, groups) \o StairsCandidates(hand, fld)

\* The generated candidates is_valid_play accepts, in generation order.
ValidCandidates(hand, fld) ==
    SelectSeq(Candidates(hand, fld), LAMBDA c : is_valid_play(Selected(hand, c)))

\* valid_move; <<>> stands for None. The first valid candidate, else, against
\* a field of three cards or more, the first valid combination of that many
\* cards of a hand of at most 12.
valid_move(hand) ==
    LET ok == ValidCandidates(hand, field)
        more == IF Len(field) >= 3 /\ Len(hand) <= 12
                THEN SelectSeq(combinations(hand_indices(hand), Len(field)),
                               LAMBDA c : is_valid_play(Selected(hand, c)))
                ELSE <<>>
    IN  IF ok # <<>> THEN Head(ok)
        ELSE IF more # <<>> THEN Head(more)
        ELSE <<>>

\* A task leaves the set of scheduled tasks when it runs.
Consume(tk, sid) == [tk EXCEPT ![sid] = @ - 1]

\* Mutant of RoundIsOver: the task does not look at game_over.
RoundIsOverIgnored == FALSE

\* if self.game_over: return
RoundIsOver == game_over

\* One scheduled run_cpu_turn(cpu_sid), from the end of its sleep to its
\* return; nothing in between yields to another handler or task. The acting
\* branch is modelled for rosters that still hold the seats the round was
\* dealt to.
run_cpu_turn(cpu_sid) ==
    /\ tasks[cpu_sid] > 0
    /\ UNCHANGED <<cand, verdict>>
    /\ IF RoundIsOver
       THEN /\ last' = Done("cpu", "over")
            /\ tasks' = Consume(tasks, cpu_sid)
            /\ UNCHANGED <<gameVars, nacts, round_acted>>
       ELSE IF turn_idx >= Len(players)
       \* players[turn_idx] raises; the handler falls back to apply_pass
       THEN /\ apply_pass(cpu_sid)
            /\ tasks' = AfterAct(Consume(tasks, cpu_sid))
       ELSE IF Seat(turn_idx).sid # cpu_sid
       THEN /\ last' = Done("cpu", "stale")
            /\ tasks' = Consume(tasks, cpu_sid)
            /\ UNCHANGED <<gameVars, nacts, round_acted>>
       ELSE /\ num_players = Len(players)
            /\ LET move == valid_move(Seat(turn_idx).hand)
               IN  IF move # <<>> THEN apply_play(cpu_sid, move)
                   ELSE apply_pass(cpu_sid)
            /\ tasks' = AfterAct(Consume(tasks, cpu_sid))

\* --------------------------------------------------------- specifications
\* Rooms whose game was started: seats join, the game starts, then plays,
\* passes and further rounds, within the budget of MaxActs plays and passes.
Next ==
    \/ Join
    \/ StartGame
    \/ (game_started /\ NextGame)
    \/ (nacts < MaxActs /\ \E sid \in Sids : OnPlay(sid))
    \/ (nacts < MaxActs /\ \E sid \in Sids : OnPass(sid))

Spec == Init /\ [][Next]_vars

\* Rooms in which every seat only passes, to any depth: the deck runs down to
\* nothing through the draws of the all-pass clear.
NextDraw ==
    \/ Join
    \/ StartGame
    \/ \E sid \in Sids : OnPass(sid)

SpecDraw == Init /\ [][NextDraw]_vars

\* The roster still has the seats the round was dealt to.
RosterAsDealt == num_players = Len(players)

\* Rooms that connections also leave: joins, starts, further rounds and, within
\* the budget of MaxActs, disconnects and the plays and passes of rooms whose
\* roster is as it was dealt.
NextRoster ==
    \/ Join
    \/ StartGame
    \/ NextGame
    \/ (nacts < MaxActs /\ CountedDisconnect)
    \/ (nacts < MaxActs /\ RosterAsDealt /\ \E sid \in Sids : OnPlay(sid))
    \/ (nacts < MaxActs /\ RosterAsDealt /\ \E sid \in Sids : OnPass(sid))

SpecRoster == Init /\ [][NextRoster]_vars

\* Practice rooms: the human's plays, passes and further rounds within the
\* budget of MaxActs plays and passes, its disconnect, and the scheduled CPU
\* tasks in every order.
NextCpu ==
    \/ Practice
    \/ (nacts < MaxActs /\ game_started /\ NextGame)
    \/ CountedDisconnect
    \/ (nacts < MaxActs /\ RosterAsDealt /\ \E sid \in Sids : OnPlay(sid))
    \/ (nacts < MaxActs /\ RosterAsDealt /\ \E sid \in Sids : OnPass(sid))
    \/ \E cpu_sid \in CpuSids : run_cpu_turn(cpu_sid)

SpecCpu == Init /\ [][NextCpu]_vars

\* Rooms a connection may join twice: joins before the first deal, one start,
\* then disconnects and, within the budget of MaxActs, plays and passes. Once
\* a seat left during the round, the plays explored are those that leave
\* cards on the field.
NextRejoin ==
    \/ (num_players = Unset /\ Join)
    \/ (num_players = Unset /\ Rejoin)
    \/ (num_players = Unset /\ StartGame)
    \/ (game_started /\ Disconnect /\ UNCHANGED nacts)
    \/ /\ nacts < MaxActs
       /\ \E sid \in Sids : OnPlay(sid)
       /\ (RosterAsDealt \/ field' # <<>> \/ UNCHANGED gameVars)
    \/ (nacts < MaxActs /\ RosterAsDealt /\ \E sid \in Sids : OnPass(sid))

SpecRejoin == Init /\ [][NextRejoin]_vars

\* ---------------------------------------------- is_valid_play on its own
\* Selections and tables over a small set of cards: is_valid_play is applied to
\* every selection of up to MaxCand of them against every table an accepted,
\* non-clearing lead of them leaves.
RuleCards == << Card(1, 3), Card(1, 4), Card(3, 4), Card(1, 5), Card(1, 14),
                Card(1, 15), Card(3, 15), Joker >>

RuleSelections ==
    UNION {{[k \in 1..n |-> RuleCards[ix[k]]] :
              ix \in {f \in [1..n -> DOMAIN RuleCards] :
                        \A i, j \in 1..n : i < j => f[i] <= f[j]}} : n \in 1..MaxCand}

RuleTables ==
    {<<>>} \cup {c \in RuleSelections : ValidPlay(c, <<>>, "None") /\ ~IsClearing(c)}

InitRule ==
    /\ players = <<>>
    /\ deck = <<>>
    /\ field \in RuleTables
    /\ field_type = (IF field = <<>> THEN "None" ELSE analyze_hand_composition(field).type)
    /\ field_owner = (IF field = <<>> THEN NoSeat ELSE 0)
    /\ turn_idx = 0
    /\ parent_idx = 0
    /\ pass_count = 0
    /\ game_started = FALSE
    /\ game_over = FALSE
    /\ num_players = Unset
    /\ is_first_turn = FALSE
    /\ last = Done("init", "ok")
    /\ nacts = 0
    /\ round_acted = FALSE
    /\ cand = <<>>
    /\ verdict = FALSE
    /\ tasks = NoTasks

\* One selection is judged per table.
Judge ==
    /\ last.op = "init"
    /\ \E cards \in RuleSelections :
          /\ cand' = cards
          /\ verdict' = is_valid_play(cards)
    /\ last' = Done("judge", "ok")
    /\ UNCHANGED <<gameVars, nacts, round_acted, tasks>>

NextRule == Judge

SpecRule == InitRule /\ [][NextRule]_vars

\* ================================================================ claims
ScoreOf(i) == players[i + 1].score
HandOf(i) == players[i + 1].hand
SumScores == SumSeq([k \in DOMAIN players |-> players[k].score])

AcceptedPlay(l) == l.op = "play" /\ l.ret = "ok"
AcceptedPass(l) == l.op = "pass" /\ l.ret = "ok"
HasEightOrTwo(cards) == \E k \in DOMAIN cards : cards[k].rank \in {8, 15}

\* C1: settlement is zero-sum: whatever the losers are charged the winner is
\* credited, so the scores of all seats sum to 0 in every state, from the
\* lobby through start_game, plays, passes and next_game.
C1_ZeroSum == SumScores = 0

\* A round was settled and the winner holds points.
C1_Witness ==
    /\ game_over
    /\ AcceptedPlay(last)
    /\ HandOf(last.seat) = <<>>
    /\ ScoreOf(last.seat) > 0

\* C2: an accepted play without 8 and 2, and every accepted pass, moves the
\* turn to (turn + 1) mod seat count of the round; an accepted play holding an
\* 8 or a 2 leaves the turn with the seat that played.
C2_TurnPointer ==
    [][ /\ (AcceptedPlay(last') /\ ~HasEightOrTwo(last'.cards))
            => turn_idx' = (turn_idx + 1) % num_players
        /\ AcceptedPass(last')
            => turn_idx' = (turn_idx + 1) % num_players
        /\ (AcceptedPlay(last') /\ HasEightOrTwo(last'.cards))
            => (turn_idx' = turn_idx /\ turn_idx' = last'.seat)
      ]_vars

\* A clearing play was accepted and its seat still holds the turn.
C2_Witness ==
    /\ AcceptedPlay(last)
    /\ HasEightOrTwo(last.cards)
    /\ turn_idx = last.seat
    /\ num_players >= 2

\* C3: a selection holding a 2 is accepted by is_valid_play exactly when it is
\* that one card and the field is empty or holds one card.
C3_TwoSingleOnly ==
    (last.op = "judge" /\ \E k \in DOMAIN cand : cand[k].rank = 15)
        => (verdict <=> (Len(cand) = 1 /\ (field = <<>> \/ Len(field) = 1)))

\* A single 2 was judged against a one-card field and accepted.
C3_Witness ==
    /\ last.op = "judge"
    /\ Len(cand) = 1
    /\ cand[1].rank = 15
    /\ Len(field) = 1
    /\ verdict

\* A round was settled by the step: a play was accepted and emptied its seat's hand.
SettledBy(l, ps) == AcceptedPlay(l) /\ ps[l.seat + 1].hand = <<>>

\* The play of the step is the round's first action, by the parent, of 5 cards.
FirstParentFive(l) == ~round_acted /\ l.seat = parent_idx /\ Len(l.cards) = 5

\* Cards left in a hand, Jokers counted twice.
CardPoints(hand) == Len(hand) + Cardinality({k \in DOMAIN hand : hand[k].rank = 99})

\* ceil(x * 1.5): the least m with 2m >= 3x.
CeilThreeHalves(x) == CHOOSE m \in 0..(2 * x) : 2 * m >= 3 * x /\ 2 * (m - 1) < 3 * x

\* What the card-count formula charges seat i, from the hands the settlement saw
\* and the parent of the round.
FormulaLoss(i, ps) ==
    IF i = parent_idx THEN CeilThreeHalves(CardPoints(ps[i + 1].hand))
    ELSE CardPoints(ps[i + 1].hand)

\* C4: when a round that is no Tenhou is settled, every seat but the winner
\* loses its card points (cards left, Jokers twice), the parent of the round
\* ceil(1.5 x card points), and the winner's score does not go down.
C4_LossAmounts ==
    [][ (SettledBy(last', players') /\ ~FirstParentFive(last'))
          => \A i \in Seats :
                IF i = last'.seat THEN players'[i + 1].score >= ScoreOf(i)
                ELSE players'[i + 1].score = ScoreOf(i) - FormulaLoss(i, players')
      ]_vars

\* A settled round in which one loser was charged the rounded-up parent rate on
\* an odd count and another loser was charged for a Joker.
C4_Witness ==
    /\ game_over
    /\ SettledBy(last, players)
    /\ \E i, j \in Seats \ {last.seat} :
          /\ i # j
          /\ CardPoints(HandOf(i)) % 2 = 1
          /\ ScoreOf(i) = 0 - CeilThreeHalves(CardPoints(HandOf(i)))
          /\ CardPoints(HandOf(j)) > Len(HandOf(j))
          /\ ScoreOf(j) = 0 - CardPoints(HandOf(j))

\* C5: a round-ending play is settled flat (10 off every other seat, 10 x the
\* number of other seats to the winner) exactly when it is the first action of
\* the round, by the parent, of 5 cards; any other round-ending play is
\* settled by the card-count formula.
C5_Tenhou ==
    [][ SettledBy(last', players')
          => LET w == last'.seat
                 others == Seats \ {w}
             IN  IF FirstParentFive(last')
                 THEN /\ \A i \in others : players'[i + 1].score = ScoreOf(i) - 10
                      /\ players'[w + 1].score = ScoreOf(w) + 10 * (Len(players) - 1)
                 ELSE /\ \A i \in others :
                            players'[i + 1].score = ScoreOf(i) - FormulaLoss(i, players')
                      /\ players'[w + 1].score =
                            ScoreOf(w) + SumSeq([k \in DOMAIN players |->
                                            IF k - 1 = w THEN 0
                                            ELSE FormulaLoss(k - 1, players')])
      ]_vars

\* The parent went out with its 5 dealt cards on the first action and every
\* other seat, still holding 5 cards, was charged 10.
C5_Witness ==
    /\ game_over
    /\ SettledBy(last, players)
    /\ Len(last.cards) = 5
    /\ ScoreOf(last.seat) = 10 * (Len(players) - 1)
    /\ \A i \in Seats \ {last.seat} : Len(HandOf(i)) = 5 /\ ScoreOf(i) = -10

\* C6: a play or pass request either comes from the seat at the turn index, or
\* it does not succeed and leaves the whole room state as it was (last.seat is
\* the seat the turn check let through; a rejected request records none).
C6_OutOfTurn ==
    [][ last'.op \in {"play", "pass"}
          => \/ last'.seat = turn_idx
             \/ (last'.ret # "ok" /\ UNCHANGED gameVars)
      ]_vars

\* apply_play returned False to a seat that is not to move, in a round under way.
C6_Witness ==
    /\ last = Done("play", "fail")
    /\ num_players >= 2
    /\ field # <<>>
    /\ ~game_over

\* Some index occurs twice in the sequence.
HasRepeat(indices) ==
    \E a, b \in DOMAIN indices : a # b /\ indices[a] = indices[b]

\* The cards the step took off the deck.
Popped == SubSeq(deck, Len(deck') + 1, Len(deck))

\* C7: the cards an accepted play takes out of the acting seat's hand are, as a
\* multiset, the cards recorded as the play (a card drawn by the same step set
\* aside), and a play request whose index sequence repeats an index or
\* addresses no card of the hand changes nothing of the room state.
C7_PlayedCardsLeaveHand ==
    [][ /\ AcceptedPlay(last')
             => \E d \in {<<>>} \cup {<<Popped[k]>> : k \in DOMAIN Popped} :
                   SameCards(HandOf(last'.seat) \o d,
                             players'[last'.seat + 1].hand \o last'.cards)
        /\ \/ UNCHANGED gameVars
           \/ ~ \E sid \in Sids :
                  /\ SeatOf(sid) # -1
                  /\ \E indices \in IndexInputs :
                        /\ \/ HasRepeat(indices)
                           \/ ~InRange(indices, Len(Seat(FirstSeatOf(sid)).hand))
                        /\ PlayCard(sid, indices)
      ]_vars

\* The step is an accepted pass that brings the counter to seat count - 1.
AllPassClear == AcceptedPass(last') /\ pass_count + 1 >= num_players - 1

\* C8: an accepted pass raises the pass counter by one; when that reaches
\* seat count - 1 the field is emptied, loses its type and owner and the counter
\* returns to 0, otherwise field, type and owner stay; an accepted play sets
\* the counter to 0; so in a round of n >= 2 seats the counter is below n - 1
\* or is 0.
C8_AllPassClear ==
    /\ [][ /\ AcceptedPass(last')
                => IF pass_count + 1 >= num_players - 1
                   THEN /\ field' = <<>>
                        /\ field_type' = "None"
                        /\ field_owner' = NoSeat
                        /\ pass_count' = 0
                   ELSE /\ pass_count' = pass_count + 1
                        /\ UNCHANGED <<field, field_type, field_owner>>
           /\ AcceptedPlay(last') => pass_count' = 0
         ]_vars
    /\ [](num_players >= 2 => (pass_count < num_players - 1 \/ pass_count = 0))

\* Three seats: one pass counted, the next one cleared the field and every
\* seat drew.
C8_Witness ==
    /\ num_players = 3
    /\ AcceptedPass(last)
    /\ pass_count = 0
    /\ field = <<>>
    /\ Len(deck) = 54 - 5 * 3 - 3

\* A play with an 8 or a 2, or the all-pass clear.
ClearingEvent ==
    \/ AllPassClear
    \/ (AcceptedPlay(last') /\ HasEightOrTwo(last'.cards))

\* Cards seat i was given by the step: the change of its hand, the cards it
\* played added back.
Drew(i) ==
    Len(players'[i + 1].hand) - Len(HandOf(i))
      + (IF last'.op = "play" /\ last'.seat = i THEN Len(last'.cards) ELSE 0)

\* C9: at a clearing event either every seat draws exactly one card from the
\* deck, or the deck was empty and no seat draws.
C9_DrawAllOrNothing ==
    [][ ClearingEvent
          => \/ /\ \A i \in Seats : Drew(i) = 1
                /\ Len(deck') = Len(deck) - Len(players)
             \/ /\ deck = <<>>
                /\ deck' = <<>>
                /\ \A i \in Seats : Drew(i) = 0
      ]_vars

\* Hands, deck and field together.
TotalCards(ps, dk, fld) ==
    SumSeq([k \in DOMAIN ps |-> Len(ps[k].hand)]) + Len(dk) + Len(fld)

\* Copies of card c that seat i holds after the step beyond those it held before.
Gained(i, c) ==
    Max2(0, Count(players'[i + 1].hand, c) - Count(HandOf(i), c))

\* C10: right after round setup every seat holds 5 cards and the deck
\* 54 - 5 x seat count; on every play or pass after that the deck only loses
\* cards from its end, a seat gains at most one card and that card left the
\* deck in the step, and hands + deck + field never grow; the total never
\* exceeds 54.
C10_CardAccounting ==
    /\ [][ /\ last'.op \in {"start", "next"}
                => /\ \A k \in DOMAIN players' : Len(players'[k].hand) = 5
                   /\ Len(deck') = 54 - 5 * Len(players')
           /\ (last'.op \in {"play", "pass"} /\ num_players >= 2)
                => \/ UNCHANGED <<players, deck, field>>
                   \/ /\ Len(deck') <= Len(deck)
                      /\ deck' = SubSeq(deck, 1, Len(deck'))
                      /\ \A i \in Seats :
                            LET new == {c \in Range(players'[i + 1].hand) : Gained(i, c) > 0}
                            IN  /\ Cardinality(new) <= 1
                                /\ \A c \in new : Gained(i, c) = 1 /\ c \in Range(Popped)
                      /\ Cardinality({i \in Seats : Drew(i) > 0}) = Len(deck) - Len(deck')
                      /\ TotalCards(players', deck', field') <= TotalCards(players, deck, field)
         ]_vars
    /\ [](TotalCards(players, deck, field) <= 54)

\* After a round was dealt, a play with an 8 or a 2 made every seat draw: the
\* deck is short of the dealt size by one card per seat.
C10_Witness ==
    /\ AcceptedPlay(last)
    /\ HasEightOrTwo(last.cards)
    /\ field = <<>>
    /\ Len(deck) = 54 - 5 * num_players - num_players
    /\ \E i \in Seats \ {last.seat} : Len(HandOf(i)) = 6

\* C11: the seat that ends a round becomes the parent and nothing else moves
\* the parent; next_game keeps every score, deals 5 cards to every seat, and
\* gives the turn to the parent with an empty field, no field type or owner and
\* pass counter 0, so the last winner moves first in the next round.
C11_LeadRotation ==
    [][ /\ SettledBy(last', players') => parent_idx' = last'.seat
        /\ ~SettledBy(last', players') => parent_idx' = parent_idx
        /\ last'.op = "next"
             => /\ \A k \in DOMAIN players :
                     /\ players'[k].score = players[k].score
                     /\ Len(players'[k].hand) = 5
                /\ Len(players') = Len(players)
                /\ Len(deck') = 54 - 5 * Len(players)
                /\ turn_idx' = parent_idx
                /\ field' = <<>>
                /\ field_type' = "None"
                /\ field_owner' = NoSeat
                /\ pass_count' = 0
                /\ ~game_over'
      ]_vars

\* A round won by a seat other than the first parent was followed by
\* next_game: that seat holds the turn, is the parent and kept its winnings.
C11_Witness ==
    /\ last.op = "next"
    /\ parent_idx # 0
    /\ turn_idx = parent_idx
    /\ ScoreOf(parent_idx) > 0
    /\ ~game_over
    /\ \A i \in Seats : Len(HandOf(i)) = 5

\* Jokers of a sequence beyond those filling its gaps: they may extend it at
\* either end, so it may stand for any start rank from its comparison rank up
\* to that many ranks higher. Other shapes have none.
SurplusJokers(cards) ==
    LET comp == analyze_hand_composition(cards)
        non_jokers == NonJokers(cards)
        joker_count == Len(cards) - Len(non_jokers)
        span == MaxRank(non_jokers) - MinRank(non_jokers) + 1
    IN  IF comp.type = "stairs" THEN joker_count - (span - Len(non_jokers))
        ELSE IF comp.type = "paired_stairs" THEN (Len(cards) - 2 * span) \div 2
        ELSE 0

\* The comparison rank of the cards on the field, 99 for an all-Joker field.
ComparisonRankOfField ==
    IF NonJokers(field) = <<>> THEN 99 ELSE analyze_hand_composition(field).rank

\* C12: on a non-empty field, a candidate without a rank-15 card, not all
\* Jokers, of a legal shape matching the field's length and type, is accepted
\* exactly when some rank from its comparison rank up to comparison rank +
\* surplus Jokers (and no higher than its lowest card, the highest start its
\* cards can form) is the field's comparison rank + 1.
C12_RankAdjacency ==
    LET comp == analyze_hand_composition(cand)
    IN  ( /\ last.op = "judge"
          /\ field # <<>>
          /\ \A c \in Range(cand) : c.rank # 15
          /\ NonJokers(cand) # <<>>
          /\ comp # None
          /\ comp.len = Len(field)
          /\ TypeCompatible(field_type, comp.type) )
        => ( verdict <=> \E r \in comp.rank..(comp.rank + SurplusJokers(cand)) :
                            /\ r <= MinRank(NonJokers(cand))
                            /\ r = ComparisonRankOfField + 1 )

\* The candidate judged is two or more cards, all Jokers.
AllJokerCandidate ==
    /\ last.op = "judge"
    /\ Len(cand) >= 2
    /\ \A c \in Range(cand) : c.rank = 99

\* The lowest non-Joker card on the field is an Ace.
AceField == NonJokers(field) # <<>> /\ MinRank(NonJokers(field)) = 14

RoundInProgress == game_started /\ ~game_over /\ num_players >= 2

\* C14: once a round was dealt to a roster, the turn index and the parent index
\* are positions of the current roster, and a disconnect while a round is in
\* progress removes no seat and no hand.
C14_RosterInvariant ==
    /\ []((num_players >= 2 /\ players # <<>>)
            => (turn_idx < Len(players) /\ parent_idx < Len(players)))
    /\ [][ (last'.op = "disconnect" /\ RoundInProgress)
             => /\ Len(players') = Len(players)
                /\ \A k \in DOMAIN players :
                      /\ players'[k].sid = players[k].sid
                      /\ players'[k].hand = players[k].hand
         ]_vars

\* C19: once the round is over, no play and no pass changes a hand, a score,
\* the field, the turn index or the parent until a new round is dealt.
C19_SettledStaysSettled ==
    [][ (game_over /\ last'.op \in {"play", "pass"})
          => UNCHANGED <<players, field, field_type, field_owner,
                         turn_idx, parent_idx, pass_count>>
      ]_vars

\* The operations whose whole body runs under "with self.lock": start_game,
\* next_game, apply_play and apply_pass. add_player and remove_player, which
\* join, practice and disconnect requests run, take no lock.
LockedOps == {"start", "next", "play", "pass"}

\* C16: every operation that changes the state of a room holds the room's lock
\* while it does so.
C16_MutationsUnderLock ==
    [][ (gameVars' # gameVars) => last'.op \in LockedOps ]_vars

\* A step of a scheduled CPU task: it returned at one of its two checks, or it
\* went on to an apply_play / apply_pass that found its seat; requests carry
\* the sid of a connection, never a CPU's.
CpuTaskStep ==
    \/ last'.op = "cpu"
    \/ /\ last'.op \in {"play", "pass"}
       /\ last'.seat # NoSeat
       /\ last'.seat < Len(players)
       /\ Seat(last'.seat).is_cpu

\* C15: a scheduled CPU task changes the state of the room only if, when it
\* acts, the round is not over and the turn index names its seat; a task that
\* finds the round over or the turn with another seat changes nothing, on its
\* fallback path too.
C15_StaleTasksHarmless ==
    [][ \/ UNCHANGED gameVars
        \/ ~CpuTaskStep
        \/ /\ ~game_over
           /\ turn_idx < Len(players)
           /\ Seat(turn_idx).is_cpu
           /\ last'.seat = turn_idx
           /\ tasks[Seat(turn_idx).sid] > 0
      ]_vars

\* A task ran after the human's winning play had settled the round it was
\* scheduled in or before, and returned without a change.
C15_Witness ==
    /\ last.op = "cpu"
    /\ last.ret = "over"
    /\ game_over
    /\ turn_idx < Len(players)
    /\ Seat(turn_idx).is_cpu

\* The selections of one or more cards of a hand, each by ascending positions.
Selections(hand) ==
    {AscSeq(S) : S \in (SUBSET (0..(Len(hand) - 1))) \ {{}}}

\* Some non-empty selection of the hand is accepted by is_valid_play against
\* the current field.
HasLegalPlay(hand) ==
    \E c \in Selections(hand) : is_valid_play(Selected(hand, c))

\* The field holds one card of the deck twice, as a play request that repeats
\* a position leaves it.
FieldRepeatsCard == HasRepeat(NonJokers(field))

\* C17: a CPU seat passes only when no non-empty selection of its hand is
\* accepted by is_valid_play against the current field (fields that hold a
\* card twice set aside).
C17_PassOnlyWithoutLegalPlay ==
    [][ \/ UNCHANGED gameVars
        \/ ~(CpuTaskStep /\ last'.op = "pass" /\ last'.ret = "ok")
        \/ FieldRepeatsCard
        \/ ~HasLegalPlay(Seat(turn_idx).hand)
      ]_vars

\* The summed rank of a selection.
RankSum(cards) == SumSeq([k \in DOMAIN cards |-> cards[k].rank])

\* C18: the play a CPU seat makes on an empty field has the most cards among
\* the generated candidates is_valid_play accepts, and the lowest summed rank
\* among those of that length.
C18_LeadHeuristic ==
    [][ \/ UNCHANGED gameVars
        \/ ~(CpuTaskStep /\ last'.op = "play" /\ last'.ret = "ok" /\ field = <<>>)
        \/ LET hand == Seat(turn_idx).hand
               ok == ValidCandidates(hand, field)
           IN  \A k \in DOMAIN ok :
                  \/ Len(ok[k]) < Len(last'.cards)
                  \/ /\ Len(ok[k]) = Len(last'.cards)
                     /\ RankSum(Selected(hand, ok[k])) >= RankSum(last'.cards)
      ]_vars

\* C20: every play that changes the state is a selection of cards of the
\* acting seat's hand that is_valid_play accepts against the field, both taken
\* as they are when the play is applied.
C20_NoCheckThenActGap ==
    [][ \/ UNCHANGED gameVars
        \/ last'.op # "play"
        \/ /\ last'.seat = turn_idx
           /\ LET hand == Seat(turn_idx).hand
              IN  IF last'.ret = "ok"
                  THEN /\ is_valid_play(last'.cards)
                       /\ \A k \in DOMAIN last'.cards :
                             \E i \in DOMAIN hand : hand[i] = last'.cards[k]
                  ELSE \E indices \in IndexInputs :
                          /\ InRange(indices, Len(hand))
                          /\ is_valid_play(Selected(hand, indices))
      ]_vars

\* The seat the turn index should name while cards lie on the field: the
\* owner's successor, moved on by the passes made since.
TurnAfterOwner == (field_owner + 1 + pass_count) % num_players

\* C21: in a round dealt to n seats, a non-empty field has an owner and the
\* turn index is (owner + 1 + pass counter) mod n; the field is empty exactly
\* when it has no owner and no type; and the all-pass clear of a field that
\* had an owner leaves the turn with that owner.
C21_FieldOwnerAligned ==
    /\ []((num_players >= 2 /\ field # <<>>)
            => (field_owner # NoSeat /\ turn_idx = TurnAfterOwner))
    /\ [](field = <<>> <=> (field_owner = NoSeat /\ field_type = "None"))
    /\ [][ (AllPassClear /\ field # <<>>) => turn_idx' = field_owner ]_vars

\* Cards lie on the field and a seat after the owner has passed on them.
C21_Witness ==
    /\ field # <<>>
    /\ field_owner # NoSeat
    /\ pass_count >= 1
    /\ last.op = "pass"
    /\ last.ret = "ok"
    /\ turn_idx = (field_owner + 2) % num_players

====
